---- MODULE Spec2Model ----
(***************************************************************************)
(* A model of falcon-fdr-dictionary:                                       *)
(*   - the generate command of falcon_fdr_dictionary/cli.py together with  *)
(*     the FDRClient calls it makes (api_client.py): the Catalog Assembler;*)
(*   - load_tag_files of falcon_fdr_dictionary/tagging.py: the Keyword     *)
(*     Store.                                                              *)
(*   - get_keywords and its module-level cache;                            *)
(*   - extract_tags: the Tag Matcher; expand_name: the Name Expander;      *)
(*   - tag_event: the Event Tagger.                                        *)
(* Each machine has its own specification; the variables of the other      *)
(* machines stay at their idle values.                                     *)
(***************************************************************************)
EXTENDS Integers, Sequences, FiniteSets, TLC

(***************************************************************************)
(* Bounds of the model.                                                    *)
(***************************************************************************)
\* identifiers the summary endpoint can return: 1..MaxId
MaxId == 2
\* longest identifier list of one summary page
MaxPageLen == 2
\* largest total the summary endpoint reports
MaxTotal == 3
\* summary requests after which the model stops following a run
MaxPages == 3

Ids == 1..MaxId

\* The identifier lists a summary page can carry: one page lists distinct
\* identifiers; two pages may share one (the remote catalog may change
\* between two requests).
PageLists ==
    {ids \in UNION {[1..n -> Ids] : n \in 0..MaxPageLen} :
        \A j, k \in 1..Len(ids) : j # k => ids[j] # ids[k]}

VARIABLES
    \* ---- generate (cli.py) ----
    pc,                  \* position in generate
    total,               \* cli.py:202
    current_offset,      \* cli.py:203
    complete_dictionary, \* cli.py:201
    first_batch,         \* TRUE while the resources of initial_result are processed
    resources,           \* the 'resources' list of the page being processed
    ri,                  \* index of the next resource_id of the for loop
    outfile,             \* the output file: touched or not, and the chunks it holds
    exit_code,           \* exit status of the command, NoExit while it runs
    \* ---- history of the run (not read by the code) ----
    n_pages,             \* summary requests issued so far
    page_failed,         \* a summary request returned a non-success status
    returned,            \* per identifier: times a successful summary page returned it
    detail_ok,           \* per identifier: detail calls that reported a resource
    detail_zero,         \* per identifier: detail calls that reported no resource
    exit_event,          \* what ended the command
    reported_total,      \* the total of the last successful summary response
    req_offset,          \* the offset of the last summary request
    page_details,        \* identifiers of the detail requests issued since the
                         \* last summary response, in order
    \* ---- load_tag_files (tagging.py) ----
    tag_files,           \* the argument: the list of sources
    default_source,      \* the file at get_default_tags_file()
    file_list,           \* the local tag_files after line 42
    l_pc,                \* position in load_tag_files
    idx,                 \* position of "for tag_file_path in tag_files"
    file_keys,           \* keys of the current mapping already iterated
    keywords,            \* tagging.py:38
    error,               \* the exception load_tag_files raised, "none" if none
    \* ---- history of the load (not read by the code) ----
    defs,                \* per tag: union of the keyword lists the sources gave it
    merged,              \* tags that more than one source gave a keyword list
    n_read,              \* sources that were opened and parsed
    \* ---- get_keywords (tagging.py) ----
    KEYWORDS_CACHE,      \* tagging.py:13, the module global _KEYWORDS_CACHE
    heap,                \* the store objects created so far, by object identity
    fs,                  \* what each tag file holds at the moment
    ret,                 \* the object the last call returned, NoObject if it raised
    \* ---- history of the calls (not read by the code) ----
    call,                \* arguments and outcome of the last call
    n_calls,             \* calls of get_keywords so far
    n_loads,             \* calls of load_tag_files so far
    default_obj,         \* the object the last successful call without custom
                         \* sources returned
    \* ---- extract_tags (tagging.py) ----
    description,         \* the argument: the text to search
    kw_store,            \* the argument keywords: the keyword store
    matching_tags,       \* tagging.py:126
    m_pc,                \* "call" before the call, "returned" after it
    \* ---- expand_name (tagging.py) ----
    name,                \* the argument
    modified_name,       \* tagging.py:164
    e_pc,                \* "call" before the call, "returned" after it
    \* ---- tag_event (tagging.py) ----
    event,               \* the argument: the record, a dictionary that is mutated
    ev_store,            \* the argument keywords: the keyword store
    tag_from_description, \* tagging.py:190
    tag_from_name,       \* tagging.py:191
    t_pc,                \* "call", "returned" or "raised"
    \* ---- history of the tagging (not read by the code) ----
    original,            \* the record as it was before the first call
    t_count,             \* calls of tag_event on the record so far
    \* ---- tag_dictionary (tagging.py) ----
    catalog,             \* the records of the input file
    b_tag_files,         \* the argument tag_files
    events,              \* the argument events: the list of records, mutated
    b_pc,                \* "start", "loop", "returned" or "raised"
    b_keywords,          \* tagging.py:214: the store object of the call
    bi,                  \* position of "for event in events"
    tagged_events,       \* tagging.py:216
    untagged_events,     \* tagging.py:217
    dicts,               \* per store object of the heap: its dictionary
    \* ---- history of the batch (not read by the code) ----
    used,                \* per record tagged: the store object it was tagged with
    b_before,            \* n_calls and n_loads when the call began
    b_run,               \* the run of the tag command this is
    first_output,         \* the two lists the first run returned, and its store
    \* ---- concurrent callers of get_keywords (tagging.py) ----
    shared_cache,        \* _KEYWORDS_CACHE as the threads see it
    objects,             \* the dictionary objects created so far
    default_file,        \* the version of the default tag file on disk
    th_pc,               \* position of each thread in get_keywords
    th_tag_files,        \* its tag_files argument
    th_force_reload,     \* its force_reload argument
    th_keywords,         \* its local "keywords" of load_tag_files
    th_file_keywords,    \* its parsed file: the version it read
    th_k,                \* the next entry of the file it copies
    th_ret               \* what its call returned

gen_vars == <<pc, total, current_offset, complete_dictionary, first_batch,
              resources, ri, outfile, exit_code, n_pages, page_failed,
              returned, detail_ok, detail_zero, exit_event, reported_total,
              req_offset, page_details>>

load_vars == <<tag_files, default_source, file_list, l_pc, idx, file_keys,
               keywords, error, defs, merged, n_read>>

cache_vars == <<KEYWORDS_CACHE, heap, fs, ret, call, n_calls, n_loads,
                default_obj>>

match_vars == <<description, kw_store, matching_tags, m_pc>>

expand_vars == <<name, modified_name, e_pc>>

tag_vars == <<event, ev_store, tag_from_description, tag_from_name, t_pc,
              original, t_count>>

batch_vars == <<catalog, b_tag_files, events, b_pc, b_keywords, bi,
                tagged_events, untagged_events, dicts, used, b_before, b_run,
                first_output>>

conc_vars == <<shared_cache, objects, default_file, th_pc, th_tag_files,
               th_force_reload, th_keywords, th_file_keywords, th_k, th_ret>>

vars == <<gen_vars, load_vars, cache_vars, match_vars, expand_vars, tag_vars,
          batch_vars, conc_vars>>

\* the variables of the machines other than generate, load_tag_files,
\* get_keywords, extract_tags, expand_name, tag_event, tag_dictionary
gen_rest == <<load_vars, cache_vars, match_vars, expand_vars, tag_vars,
    batch_vars, conc_vars>>
load_rest == <<gen_vars, cache_vars, match_vars, expand_vars, tag_vars,
    batch_vars, conc_vars>>
cache_rest == <<gen_vars, load_vars, match_vars, expand_vars, tag_vars,
    batch_vars, conc_vars>>
match_rest == <<gen_vars, load_vars, cache_vars, expand_vars, tag_vars,
    batch_vars, conc_vars>>
expand_rest == <<gen_vars, load_vars, cache_vars, match_vars, tag_vars,
    batch_vars, conc_vars>>
tag_rest == <<gen_vars, load_vars, cache_vars, match_vars, expand_vars,
    batch_vars, conc_vars>>
\* tag_dictionary calls get_keywords: it leaves the other machines alone
batch_rest == <<gen_vars, load_vars, match_vars, expand_vars, tag_vars,
    conc_vars>>
\* the concurrent callers leave the other machines alone
conc_rest == <<gen_vars, load_vars, cache_vars, match_vars, expand_vars,
    tag_vars, batch_vars>>

\* exit_code while the command is running
NoExit == 0 - 1

(***************************************************************************)
(* Pure helpers.                                                           *)
(***************************************************************************)
\* number of positions of the list ids that hold identifier i
Occurrences(ids, i) == Cardinality({k \in 1..Len(ids) : ids[k] = i})

\* number of records of the collection whose id is i
CountId(coll, i) == Cardinality({k \in 1..Len(coll) : coll[k].id = i})

\* insert record r after the records whose key is <= r.id (stable)
RECURSIVE InsertById(_, _)
InsertById(sorted, r) ==
    IF sorted = <<>> THEN <<r>>
    ELSE IF Head(sorted).id <= r.id
         THEN <<Head(sorted)>> \o InsertById(Tail(sorted), r)
         ELSE <<r>> \o sorted

\* sorted(complete_dictionary, key=lambda k: k.get('id', 0)): a stable sort
RECURSIVE SortById(_)
SortById(coll) ==
    IF coll = <<>> THEN <<>>
    ELSE InsertById(SortById(SubSeq(coll, 1, Len(coll) - 1)), coll[Len(coll)])

IsSortedById(coll) == \A k \in 1..(Len(coll) - 1) : coll[k].id <= coll[k + 1].id

NoDuplicateIds(coll) ==
    \A j, k \in 1..Len(coll) : j # k => coll[j].id # coll[k].id

\* The responses of get_dictionary_item(event_id): a 2xx body with the record
\* of that identifier, a 2xx body with no resource, or the zero-resource
\* dictionary built for a non-2xx status or an exception.
DetailResponses(event_id) ==
    { [status_ok |-> TRUE,  resources |-> <<[id |-> event_id]>>],
      [status_ok |-> TRUE,  resources |-> <<>>],
      [status_ok |-> FALSE, resources |-> <<>>] }

\* a mutant of AppendIfResource: the collection is assigned, not appended to
AppendIfResourceOverwrite(dict, item) ==
    IF item.resources # <<>> THEN <<item.resources[1]>> ELSE dict

\* if item.get('resources'): complete_dictionary.append(item['resources'][0])
AppendIfResource(dict, item) ==
    IF item.resources # <<>> THEN Append(dict, item.resources[1]) ELSE dict

\* json.dump(complete_dictionary, outfile, indent=4, sort_keys=True) writes the
\* document chunk by chunk: the opening bracket, each record, the closing
\* bracket; an empty list is the single chunk "[]".
Chunk(kind, id) == [tok |-> kind, id |-> id]

Serialize(coll) ==
    IF coll = <<>> THEN <<Chunk("[]", 0)>>
    ELSE <<Chunk("[", 0)>>
         \o [k \in 1..Len(coll) |-> Chunk("record", coll[k].id)]
         \o <<Chunk("]", 0)>>

Untouched == [touched |-> FALSE, data |-> <<>>]

(***************************************************************************)
(* generate: state after the client is constructed (cli.py:183-187).       *)
(***************************************************************************)
GenInit ==
    /\ pc = "authenticate"
    /\ total = 1
    /\ current_offset = 0
    /\ complete_dictionary = <<>>
    /\ first_batch = TRUE
    /\ resources = <<>>
    /\ ri = 1
    /\ outfile = Untouched
    /\ exit_code = NoExit
    /\ n_pages = 0
    /\ page_failed = FALSE
    /\ returned = [i \in Ids |-> 0]
    /\ detail_ok = [i \in Ids |-> 0]
    /\ detail_zero = [i \in Ids |-> 0]
    /\ exit_event = "none"
    /\ reported_total = 1
    /\ req_offset = 0
    /\ page_details = <<>>

history == <<n_pages, page_failed, returned, detail_ok, detail_zero,
             reported_total, req_offset, page_details>>

\* sys.exit(code): SystemExit passes both except clauses of generate
SysExit(code, cause) ==
    /\ pc' = "exit"
    /\ exit_code' = code
    /\ exit_event' = cause

\* client.authenticate() returns True or False (an exception inside it is
\* turned into False, api_client.py:47-49)
Authenticate ==
    /\ UNCHANGED gen_rest
    /\ pc = "authenticate"
    /\ \/ /\ pc' = "first_page"
          /\ UNCHANGED <<exit_code, exit_event>>
       \/ SysExit(1, "auth_failed")
    /\ UNCHANGED <<total, current_offset, complete_dictionary, first_batch,
                   resources, ri, outfile, history>>

\* client.get_dictionary_page(limit=200, offset=0) and the lines up to the
\* first for loop
FirstPage ==
    /\ UNCHANGED gen_rest
    /\ pc = "first_page"
    /\ n_pages' = n_pages + 1
    /\ req_offset' = 0
    /\ \/ \E t \in 0..MaxTotal, ids \in PageLists :
            /\ total' = t
            /\ reported_total' = t
            /\ resources' = ids
            /\ ri' = 1
            /\ returned' = [i \in Ids |-> returned[i] + Occurrences(ids, i)]
            /\ pc' = "details"
            /\ UNCHANGED <<exit_code, exit_event, page_failed>>
       \/ /\ page_failed' = TRUE
          /\ SysExit(1, "page_failed")
          /\ UNCHANGED <<total, resources, ri, returned, reported_total>>
    /\ UNCHANGED <<current_offset, complete_dictionary, first_batch, outfile,
                   detail_ok, detail_zero, page_details>>

\* a mutant of DetailRequest: the identifiers are taken from the end
DetailRequestReversed(ids, i) == ids[Len(ids) - i + 1]

\* cli.py:230, 246: the identifier of the i-th iteration of the for loop
DetailRequest(ids, i) == ids[i]

\* one iteration of "for resource_id in ...get('resources', [])"
FetchDetail ==
    /\ UNCHANGED gen_rest
    /\ pc = "details"
    /\ ri <= Len(resources)
    /\ LET resource_id == DetailRequest(resources, ri) IN
         /\ \E item \in DetailResponses(resource_id) :
              /\ complete_dictionary' =
                     AppendIfResource(complete_dictionary, item)
              /\ IF item.resources # <<>>
                 THEN /\ detail_ok' = [detail_ok EXCEPT ![resource_id] = @ + 1]
                      /\ UNCHANGED detail_zero
                 ELSE /\ detail_zero' =
                            [detail_zero EXCEPT ![resource_id] = @ + 1]
                      /\ UNCHANGED detail_ok
         /\ page_details' = Append(page_details, resource_id)
    /\ ri' = ri + 1
    /\ UNCHANGED <<pc, total, current_offset, first_batch, resources, outfile,
                   exit_code, exit_event, n_pages, page_failed, returned,
                   reported_total, req_offset>>

\* a mutant of AdvanceOffset: the offset is set to the length of the page
AdvanceOffsetReset(first, offset, n) == n

\* cli.py:236, 251: current_offset = len(...) after the first batch,
\* current_offset += len(...) after a later one
AdvanceOffset(first, offset, n) == IF first THEN n ELSE offset + n

\* the for loop is exhausted: current_offset = len(...) after the first
\* batch, current_offset += len(...) after a later one
EndBatch ==
    /\ UNCHANGED gen_rest
    /\ pc = "details"
    /\ ri > Len(resources)
    /\ current_offset' =
           AdvanceOffset(first_batch, current_offset, Len(resources))
    /\ first_batch' = FALSE
    /\ pc' = "loop"
    /\ UNCHANGED <<total, complete_dictionary, resources, ri, outfile,
                   exit_code, exit_event, history>>

\* while current_offset < total: get_dictionary_page(limit=200,
\* offset=current_offset); a non-success status breaks out of the loop.
\* The response carries a total, which the code does not read.  After
\* MaxPages requests the model follows only the responses that add nothing
\* to the state: a page without identifiers, a failure; n_pages stops there.
NextPage ==
    /\ UNCHANGED gen_rest
    /\ pc = "loop"
    /\ current_offset < total
    /\ n_pages' = IF n_pages < MaxPages THEN n_pages + 1 ELSE n_pages
    /\ req_offset' = current_offset
    /\ \/ \E t \in 0..MaxTotal, ids \in PageLists :
            /\ n_pages < MaxPages \/ (ids = <<>> /\ t = reported_total)
            /\ reported_total' = t
            /\ resources' = ids
            /\ ri' = 1
            /\ returned' = [i \in Ids |-> returned[i] + Occurrences(ids, i)]
            /\ page_details' = <<>>
            /\ pc' = "details"
            /\ UNCHANGED page_failed
       \/ /\ page_failed' = TRUE
          /\ pc' = "sort"
          /\ UNCHANGED <<resources, ri, returned, reported_total,
                         page_details>>
    /\ UNCHANGED <<total, current_offset, complete_dictionary, first_batch,
                   outfile, exit_code, exit_event, detail_ok, detail_zero>>

\* the while condition is false
ExitLoop ==
    /\ UNCHANGED gen_rest
    /\ pc = "loop"
    /\ ~(current_offset < total)
    /\ pc' = "sort"
    /\ UNCHANGED <<total, current_offset, complete_dictionary, first_batch,
                   resources, ri, outfile, exit_code, exit_event, history>>

SortDictionary ==
    /\ UNCHANGED gen_rest
    /\ pc = "sort"
    /\ complete_dictionary' = SortById(complete_dictionary)
    /\ pc' = "open"
    /\ UNCHANGED <<total, current_offset, first_batch, resources, ri, outfile,
                   exit_code, exit_event, history>>

\* open(output_file, 'w') truncates the file, or raises (except Exception)
OpenOutput ==
    /\ UNCHANGED gen_rest
    /\ pc = "open"
    /\ \/ /\ outfile' = [touched |-> TRUE, data |-> <<>>]
          /\ pc' = "dump"
          /\ UNCHANGED <<exit_code, exit_event>>
       \/ /\ SysExit(1, "write_failed")
          /\ UNCHANGED outfile
    /\ UNCHANGED <<total, current_offset, complete_dictionary, first_batch,
                   resources, ri, history>>

\* json.dump writes the next chunk, or the write raises (except Exception)
DumpChunk ==
    /\ UNCHANGED gen_rest
    /\ pc = "dump"
    /\ Len(outfile.data) < Len(Serialize(complete_dictionary))
    /\ \/ /\ outfile' = [outfile EXCEPT !.data =
                 Append(@, Serialize(complete_dictionary)[Len(@) + 1])]
          /\ UNCHANGED <<pc, exit_code, exit_event>>
       \/ /\ SysExit(1, "write_failed")
          /\ UNCHANGED outfile
    /\ UNCHANGED <<total, current_offset, complete_dictionary, first_batch,
                   resources, ri, history>>

\* the with block ends and generate returns
Finish ==
    /\ UNCHANGED gen_rest
    /\ pc = "dump"
    /\ Len(outfile.data) = Len(Serialize(complete_dictionary))
    /\ pc' = "exit"
    /\ exit_code' = 0
    /\ exit_event' = "returned"
    /\ UNCHANGED <<total, current_offset, complete_dictionary, first_batch,
                   resources, ri, outfile, history>>

\* positions inside the try block of generate (cli.py:205-268)
InTry == pc \in {"first_page", "details", "loop", "sort", "open", "dump"}

\* KeyboardInterrupt inside the try block: except KeyboardInterrupt ->
\* sys.exit(130); inside a request: _request -> sys.exit(130), which
\* get_dictionary_page / get_dictionary_item do not catch
Interrupt ==
    /\ UNCHANGED gen_rest
    /\ InTry
    /\ SysExit(130, "interrupt")
    /\ UNCHANGED <<total, current_offset, complete_dictionary, first_batch,
                   resources, ri, outfile, history>>

GenNext ==
    \/ Authenticate
    \/ FirstPage
    \/ FetchDetail
    \/ EndBatch
    \/ NextPage
    \/ ExitLoop
    \/ SortDictionary
    \/ OpenOutput
    \/ DumpChunk
    \/ Finish
    \/ Interrupt

(***************************************************************************)
(* load_tag_files (tagging.py:25-84).                                      *)
(***************************************************************************)
\* sources of one call
MaxFiles == 2
\* entries read from one mapping
MaxEntries == 2
\* longest keyword list of one entry
MaxWords == 2

\* Python's None as a mapping key (a YAML null key)
None == "<None>"
\* the keys a source can hold: a tag name, the empty string, null
TagNames == {"t1"}
TagKeys == TagNames \cup {"", None}

\* keyword strings, and a list item that is not a string (a YAML integer)
Keywords == {"a", "b"}
NonString == "#7"

\* the values a key of a source can map to: null, a value that is not a list
\* (a scalar or a mapping), a list of keywords (empty, or with a repeated
\* keyword), a list holding a non-string
WordsValues ==
    {[kind |-> "none", items |-> <<>>], [kind |-> "scalar", items |-> <<>>]}
    \cup {[kind |-> "list", items |-> w] :
             w \in UNION {[1..n -> Keywords] : n \in 0..MaxWords}}
    \cup {[kind |-> "list", items |-> <<NonString>>]}

\* what a source path resolves to: no file; a file whose parsed value is falsy
\* (empty document, {} or []); a file yaml.safe_load rejects; a file that
\* parses to a truthy value without .items(); a non-empty mapping
Kinds == {"missing", "empty", "yaml_error", "not_mapping", "mapping"}

Range(f) == {f[x] : x \in DOMAIN f}

EmptyStore == [t \in {} |-> <<>>]

Put(store, tag, v) ==
    [t \in DOMAIN store \cup {tag} |-> IF t = tag THEN v ELSE store[t]]

\* list(set(xs)): the elements once each, in an order the set decides
ListOfSet(S) ==
    {s \in [1..Cardinality(S) -> S] : \A j, k \in DOMAIN s : j # k => s[j] # s[k]}

\* tagging.py:62-69: the entries the loop skips
EntrySkipped(tag, words) ==
    \/ tag = None
    \/ words.kind = "none"
    \/ words.kind # "list"

\* a mutant of MergeEntry: a later source replaces the keywords of a tag
MergeEntryOverride(store, tag, words) ==
    {Put(store, tag, words.items)}

\* tagging.py:71-75: the stores the merge of one kept entry can give
MergeEntry(store, tag, words) ==
    IF tag \in DOMAIN store
    THEN {Put(store, tag, l) : l \in ListOfSet(Range(store[tag] \o words.items))}
    ELSE {Put(store, tag, words.items)}

\* an entry that defines a keyword list for its tag: a key and a list
Defines(tag, words) == tag # None /\ words.kind = "list"

AddDef(d, tag, S) ==
    Put(d, tag, IF tag \in DOMAIN d THEN d[tag] \cup S ELSE S)

LoadInit ==
    /\ tag_files \in UNION {[1..n -> Kinds] : n \in 0..MaxFiles}
    /\ default_source \in (IF tag_files = <<>> THEN Kinds ELSE {"mapping"})
    /\ file_list = <<>>
    /\ l_pc = "start"
    /\ idx = 1
    /\ file_keys = {}
    /\ keywords = EmptyStore
    /\ error = "none"
    /\ defs = EmptyStore
    /\ merged = {}
    /\ n_read = 0

l_history == <<defs, merged, n_read>>

\* a mutant of LoadStart: an empty list of sources is iterated as it is
LoadStartNoDefault ==
    /\ l_pc = "start"
    /\ keywords' = EmptyStore
    /\ file_list' = tag_files
    /\ idx' = 1
    /\ l_pc' = "next_file"
    /\ UNCHANGED <<tag_files, default_source, file_keys, error, l_history>>
    /\ UNCHANGED load_rest

\* tagging.py:38-42
LoadStart ==
    /\ l_pc = "start"
    /\ keywords' = EmptyStore
    /\ file_list' = IF tag_files = <<>> THEN <<default_source>> ELSE tag_files
    /\ idx' = 1
    /\ l_pc' = "next_file"
    /\ UNCHANGED <<tag_files, default_source, file_keys, error, l_history>>
    /\ UNCHANGED load_rest

AtFile(kind) ==
    /\ l_pc = "next_file"
    /\ idx <= Len(file_list)
    /\ file_list[idx] = kind

\* a mutant of FileMissing: the missing file raises, as open() would
FileMissingRaises ==
    /\ AtFile("missing")
    /\ l_pc' = "raised"
    /\ error' = "FileNotFoundError"
    /\ UNCHANGED <<tag_files, default_source, file_list, idx, file_keys,
                   keywords, l_history>>
    /\ UNCHANGED load_rest

\* tagging.py:47-49: warning, continue
FileMissing ==
    /\ AtFile("missing")
    /\ idx' = idx + 1
    /\ UNCHANGED <<tag_files, default_source, file_list, l_pc, file_keys,
                   keywords, error, l_history>>
    /\ UNCHANGED load_rest

\* tagging.py:55-57: warning, continue
FileEmpty ==
    /\ AtFile("empty")
    /\ idx' = idx + 1
    /\ n_read' = n_read + 1
    /\ UNCHANGED <<tag_files, default_source, file_list, l_pc, file_keys,
                   keywords, error, defs, merged>>
    /\ UNCHANGED load_rest

\* a mutant of FileYamlError: the parse error is printed and the source skipped
FileYamlErrorSkipped ==
    /\ AtFile("yaml_error")
    /\ idx' = idx + 1
    /\ n_read' = n_read + 1
    /\ UNCHANGED <<tag_files, default_source, file_list, l_pc, file_keys,
                   keywords, error, defs, merged>>
    /\ UNCHANGED load_rest

\* tagging.py:77-79: yaml.YAMLError is printed and raised again
FileYamlError ==
    /\ AtFile("yaml_error")
    /\ l_pc' = "raised"
    /\ error' = "YAMLError"
    /\ n_read' = n_read + 1
    /\ UNCHANGED <<tag_files, default_source, file_list, idx, file_keys,
                   keywords, defs, merged>>
    /\ UNCHANGED load_rest

\* tagging.py:60, 80-82: file_keywords.items() raises AttributeError, which
\* is printed and raised again
FileNotMapping ==
    /\ AtFile("not_mapping")
    /\ l_pc' = "raised"
    /\ error' = "AttributeError"
    /\ n_read' = n_read + 1
    /\ UNCHANGED <<tag_files, default_source, file_list, idx, file_keys,
                   keywords, defs, merged>>
    /\ UNCHANGED load_rest

\* tagging.py:52-60: the file parses to a non-empty mapping
FileMapping ==
    /\ AtFile("mapping")
    /\ l_pc' = "entries"
    /\ file_keys' = {}
    /\ n_read' = n_read + 1
    /\ UNCHANGED <<tag_files, default_source, file_list, idx, keywords, error,
                   defs, merged>>
    /\ UNCHANGED load_rest

\* tagging.py:60-75: one iteration of "for tag, words in file_keywords.items()"
NextEntry ==
    /\ l_pc = "entries"
    /\ Cardinality(file_keys) < MaxEntries
    /\ \E tag \in TagKeys \ file_keys, words \in WordsValues :
         /\ file_keys' = file_keys \cup {tag}
         /\ IF EntrySkipped(tag, words)
            THEN UNCHANGED keywords
            ELSE keywords' \in MergeEntry(keywords, tag, words)
         /\ IF Defines(tag, words)
            THEN /\ defs' = AddDef(defs, tag, Range(words.items))
                 /\ merged' = IF tag \in DOMAIN defs THEN merged \cup {tag}
                               ELSE merged
            ELSE UNCHANGED <<defs, merged>>
    /\ UNCHANGED <<tag_files, default_source, file_list, l_pc, idx, error,
                   n_read>>
    /\ UNCHANGED load_rest

\* the mapping is exhausted: next source
EndOfFile ==
    /\ l_pc = "entries"
    /\ file_keys # {}
    /\ l_pc' = "next_file"
    /\ idx' = idx + 1
    /\ UNCHANGED <<tag_files, default_source, file_list, file_keys, keywords,
                   error, l_history>>
    /\ UNCHANGED load_rest

\* tagging.py:84: return keywords
LoadReturn ==
    /\ l_pc = "next_file"
    /\ idx > Len(file_list)
    /\ l_pc' = "done"
    /\ UNCHANGED <<tag_files, default_source, file_list, idx, file_keys,
                   keywords, error, l_history>>
    /\ UNCHANGED load_rest

LoadNext ==
    \/ LoadStart
    \/ FileMissing
    \/ FileEmpty
    \/ FileYamlError
    \/ FileNotMapping
    \/ FileMapping
    \/ NextEntry
    \/ EndOfFile
    \/ LoadReturn

(***************************************************************************)
(* get_keywords (tagging.py:87-110) and the module global _KEYWORDS_CACHE. *)
(* A store is a dictionary object: the heap gives each object created by   *)
(* load_tag_files an identity of its own, so that "the same object" and    *)
(* "an equal store" differ.  What load_tag_files builds from its sources   *)
(* is modelled in detail above; here a load is the list of the sources     *)
(* read, each with what the file held when it was read.                    *)
(***************************************************************************)
\* calls of get_keywords the model follows
MaxCalls == 3
\* longest list of custom sources of one call
MaxSources == 2

\* Python's None as the value of _KEYWORDS_CACHE and of a call that raised
NoObject == 1 - 1

DefaultPath == "default_tags.yaml"
CustomPaths == {"custom1.yaml", "custom2.yaml"}
Paths == {DefaultPath} \cup CustomPaths

\* what a tag file holds: a well-formed content, or text that yaml.safe_load
\* rejects; the default file has a second well-formed content, so that a
\* store loaded before an edit differs from a fresh load
FileStates(path) ==
    IF path = DefaultPath THEN {"v1", "v2", "malformed"} ELSE {"v1", "malformed"}

\* the states of the file system
FileSystems == {f \in [Paths -> {"v1", "v2", "malformed"}] :
                   \A path \in Paths : f[path] \in FileStates(path)}

\* the tag_files argument: None or [] (both falsy, written <<>>), or a list
\* of custom paths
TagFileArgs == UNION {[1..n -> CustomPaths] : n \in 0..MaxSources}

\* tagging.py:41-42: the sources load_tag_files iterates
SourcesOf(tf) == IF tf = <<>> THEN <<DefaultPath>> ELSE tf

\* tagging.py:77-82: a source that does not parse makes the load raise
LoadRaises(tf, f) ==
    \E k \in 1..Len(SourcesOf(tf)) : f[SourcesOf(tf)[k]] = "malformed"

\* tagging.py:38-84: the store load_tag_files builds, as the sources read
\* in order, each with what it held
LoadTagFiles(tf, f) ==
    [k \in 1..Len(SourcesOf(tf)) |->
        [path |-> SourcesOf(tf)[k], holds |-> f[SourcesOf(tf)[k]]]]

\* a mutant of UseCache: the cache is never consulted
UseCacheNever(cache, force_reload, tf) == FALSE

\* a mutant of UseCache: force_reload is ignored
UseCacheIgnoreForce(cache, force_reload, tf) ==
    cache # NoObject /\ tf = <<>>

\* tagging.py:100
UseCache(cache, force_reload, tf) ==
    cache # NoObject /\ ~force_reload /\ tf = <<>>

\* a mutant of StoreInCache: every load is cached
StoreInCacheAlways(tf) == TRUE

\* tagging.py:107
StoreInCache(tf) == tf = <<>>

\* a mutant of CacheAfterRaise: a load that raises clears the cache
CacheAfterRaiseCleared(cache) == NoObject

\* tagging.py:104-108: the exception of load_tag_files leaves get_keywords
\* at line 104, before the assignment of line 108
CacheAfterRaise(cache) == cache

NoCall == [tag_files |-> <<>>, force_reload |-> FALSE, outcome |-> "none"]

CacheInit ==
    /\ KEYWORDS_CACHE = NoObject
    /\ heap = <<>>
    /\ fs \in FileSystems
    /\ ret = NoObject
    /\ call = NoCall
    /\ n_calls = 0
    /\ n_loads = 0
    /\ default_obj = NoObject

\* tagging.py:97-110: the body of get_keywords(tf, force_reload)
GetKeywordsCall(tf, force_reload) ==
    IF UseCache(KEYWORDS_CACHE, force_reload, tf)
    THEN \* line 101: return _KEYWORDS_CACHE
         /\ ret' = KEYWORDS_CACHE
         /\ call' = [tag_files |-> tf, force_reload |-> force_reload,
                     outcome |-> "cached"]
         /\ default_obj' = ret'
         /\ UNCHANGED <<KEYWORDS_CACHE, heap, n_loads>>
    ELSE IF LoadRaises(tf, fs)
    THEN \* line 104: load_tag_files raises, the call raises
         /\ ret' = NoObject
         /\ call' = [tag_files |-> tf, force_reload |-> force_reload,
                     outcome |-> "raised"]
         /\ n_loads' = n_loads + 1
         /\ KEYWORDS_CACHE' = CacheAfterRaise(KEYWORDS_CACHE)
         /\ UNCHANGED <<heap, default_obj>>
    ELSE \* lines 104-110: a new dictionary object
         LET obj == Len(heap) + 1 IN
         /\ heap' = Append(heap, LoadTagFiles(tf, fs))
         /\ KEYWORDS_CACHE' =
                IF StoreInCache(tf) THEN obj ELSE KEYWORDS_CACHE
         /\ ret' = obj
         /\ call' = [tag_files |-> tf, force_reload |-> force_reload,
                     outcome |-> "loaded"]
         /\ n_loads' = n_loads + 1
         /\ default_obj' = IF tf = <<>> THEN obj ELSE default_obj

\* tagging.py:87-110: one call of get_keywords(tag_files, force_reload)
GetKeywords ==
    /\ n_calls < MaxCalls
    /\ n_calls' = n_calls + 1
    /\ \E tf \in TagFileArgs, force_reload \in BOOLEAN :
         GetKeywordsCall(tf, force_reload)
    /\ UNCHANGED fs
    /\ UNCHANGED cache_rest

\* a tag file is edited between two calls
EditFile ==
    /\ n_calls < MaxCalls
    /\ \E path \in Paths : \E h \in FileStates(path) :
         /\ fs[path] # h
         /\ fs' = [fs EXCEPT ![path] = h]
    /\ UNCHANGED <<KEYWORDS_CACHE, heap, ret, call, n_calls, n_loads,
                   default_obj>>
    /\ UNCHANGED cache_rest

CacheNext ==
    \/ GetKeywords
    \/ EditFile

(***************************************************************************)
(* Strings.  A Python str is a sequence of one-character strings.          *)
(***************************************************************************)
UpperCase == <<"A", "B", "C", "D", "E", "F", "G", "H", "I", "J", "K", "L", "M",
               "N", "O", "P", "Q", "R", "S", "T", "U", "V", "W", "X", "Y", "Z">>
LowerCase == <<"a", "b", "c", "d", "e", "f", "g", "h", "i", "j", "k", "l", "m",
               "n", "o", "p", "q", "r", "s", "t", "u", "v", "w", "x", "y", "z">>

\* [A-Z] and [a-z]
IsUpper(c) == \E i \in DOMAIN UpperCase : UpperCase[i] = c
IsLower(c) == \E i \in DOMAIN LowerCase : LowerCase[i] = c

\* \w of the re module, for the characters of the model (letters and space)
IsWordChar(c) == IsUpper(c) \/ IsLower(c)

\* re.IGNORECASE compares characters by their case-folded form
Fold(c) ==
    IF IsUpper(c)
    THEN LowerCase[CHOOSE i \in DOMAIN UpperCase : UpperCase[i] = c]
    ELSE c

(***************************************************************************)
(* extract_tags (tagging.py:113-137).  The keyword store is a dictionary:  *)
(* a sequence of entries with distinct tags, in insertion order.           *)
(***************************************************************************)
\* longest text searched
MaxTextLen == 3
\* most keywords of one tag
MaxKeywords == 2
\* most tags of a store
MaxTags == 2

\* the characters of a text: lower and upper case letters, and the space
TextChars == {"p", "e", "P", " "}
Texts == UNION {[1..n -> TextChars] : n \in 0..MaxTextLen}

\* the tags of a store
PE == <<"p", "e">>
PROCESS == <<"p", "r", "o", "c">>
StoreTags == {PE, PROCESS}

\* the keywords of a store: a word and a phrase
KeywordStrings == {<<"P", "e">>, <<"p", " ", "e">>}

\* the value of a tag: a list of keywords (possibly empty), or None
KeywordLists ==
    {[kind |-> "list", items |-> w] :
        w \in UNION {[1..n -> KeywordStrings] : n \in 0..MaxKeywords}}
    \cup {[kind |-> "none", items |-> <<>>]}

Stores ==
    {st \in UNION {[1..n -> [tag : StoreTags, words : KeywordLists]] :
                      n \in 0..MaxTags} :
        \A j, k \in DOMAIN st : j # k => st[j].tag # st[k].tag}

\* \b at position i of the text (between text[i] and text[i+1]): exactly one
\* side is a word character; outside the text there is none
Boundary(text, i) ==
    (i >= 1 /\ IsWordChar(text[i])) # (i < Len(text) /\ IsWordChar(text[i + 1]))

\* the escaped word matches the text from position i on, ignoring case
MatchesAt(text, i, word) ==
    /\ i + Len(word) <= Len(text)
    /\ \A k \in 1..Len(word) : Fold(text[i + k]) = Fold(word[k])

\* tagging.py:133: the alternatives of "|".join(...): the words, or the one
\* empty alternative when the list is empty
Alternatives(words) == IF words = <<>> THEN {<<>>} ELSE Range(words)

\* tagging.py:133-134: re.search(r"\b(?:w1|w2|...)\b", text, re.IGNORECASE)
Search(words, text) ==
    \E i \in 0..Len(text) : \E word \in Alternatives(words) :
        /\ Boundary(text, i)
        /\ MatchesAt(text, i, word)
        /\ Boundary(text, i + Len(word))

\* tagging.py:130-131 (the tags of the model are never None)
MatcherSkips(entry) == entry.words.kind # "list"

\* tagging.py:126-137
ExtractTags(text, keyword_store) ==
    LET F[k \in 0..Len(keyword_store)] ==
            IF k = 0 THEN <<>>
            ELSE IF /\ ~MatcherSkips(keyword_store[k])
                    /\ Search(keyword_store[k].words.items, text)
                 THEN Append(F[k - 1], keyword_store[k].tag)
                 ELSE F[k - 1]
    IN  F[Len(keyword_store)]

MatchInit ==
    /\ description \in Texts
    /\ kw_store \in Stores
    /\ matching_tags = <<>>
    /\ m_pc = "call"

\* one call extract_tags(description, store)
ExtractTagsCall ==
    /\ m_pc = "call"
    /\ matching_tags' = ExtractTags(description, kw_store)
    /\ m_pc' = "returned"
    /\ UNCHANGED <<description, kw_store>>
    /\ UNCHANGED match_rest

MatchNext == ExtractTagsCall

(***************************************************************************)
(* expand_name and split_words (tagging.py:140-169).                       *)
(***************************************************************************)
\* longest name expanded
MaxNameLen == 5

\* the characters of a name: upper and lower case letters, and the space
NameChars == {"P", "R", "e", " "}
Names == UNION {[1..n -> NameChars] : n \in 0..MaxNameLen}

\* str.isupper(): no lower case letter and at least one upper case letter
StrIsUpper(word) ==
    /\ \A k \in DOMAIN word : ~IsLower(word[k])
    /\ \E k \in DOMAIN word : IsUpper(word[k])

\* a mutant of split_words: every match gets a space in front
SplitWordsAlways(word) == <<" ">> \o word

\* tagging.py:140-152
split_words(word) ==
    IF Len(word) > 1 /\ StrIsUpper(word) THEN word ELSE <<" ">> \o word

\* tagging.py:165: the length of the match of
\* ([A-Z](?=[a-z])|[A-Z]{2,}(?=[A-Z])) that starts at character i, 0 if
\* there is none: the first alternative if it matches, else the longest run
\* of two or more capitals that a capital follows
MatchLength(s, i) ==
    IF i + 1 <= Len(s) /\ IsUpper(s[i]) /\ IsLower(s[i + 1]) THEN 1
    ELSE LET runs == {m \in 2..(Len(s) - i) :
                         \A k \in i..(i + m) : IsUpper(s[k])}
         IN  IF runs = {} THEN 0
             ELSE CHOOSE m \in runs : \A n \in runs : n <= m

RECURSIVE Substitute(_, _)
\* tagging.py:164-168: re.sub from character i on: a match is replaced by
\* split_words(match) and the scan goes on after it; a character where no
\* match starts is copied
Substitute(s, i) ==
    IF i > Len(s) THEN <<>>
    ELSE IF MatchLength(s, i) = 0 THEN <<s[i]>> \o Substitute(s, i + 1)
    ELSE split_words(SubSeq(s, i, i + MatchLength(s, i) - 1))
             \o Substitute(s, i + MatchLength(s, i))

RECURSIVE Strip(_)
\* str.strip(): leading and trailing white space removed
Strip(s) ==
    IF s = <<>> THEN s
    ELSE IF Head(s) = " " THEN Strip(Tail(s))
    ELSE IF s[Len(s)] = " " THEN Strip(SubSeq(s, 1, Len(s) - 1))
    ELSE s

\* tagging.py:155-169
expand_name(s) == Strip(Substitute(s, 1))

ExpandInit ==
    /\ name \in Names
    /\ modified_name = <<>>
    /\ e_pc = "call"

\* one call expand_name(name)
ExpandNameCall ==
    /\ e_pc = "call"
    /\ modified_name' = expand_name(name)
    /\ e_pc' = "returned"
    /\ UNCHANGED name
    /\ UNCHANGED expand_rest

ExpandNext == ExpandNameCall

(***************************************************************************)
(* tag_event (tagging.py:172-197).  A record is a dictionary: a function   *)
(* from the names of its fields to Python values.                          *)
(***************************************************************************)
\* calls of tag_event on one record
MaxTaggings == 2

\* Python values: a str, None, a list of str
PyStr(s) == [kind |-> "str", val |-> s]
PyNone == [kind |-> "none", val |-> <<>>]
PyList(l) == [kind |-> "list", val |-> l]

\* ord(c) for the letters and the space
CodePoint(c) ==
    IF IsUpper(c) THEN 64 + (CHOOSE i \in DOMAIN UpperCase : UpperCase[i] = c)
    ELSE IF IsLower(c)
    THEN 96 + (CHOOSE i \in DOMAIN LowerCase : LowerCase[i] = c)
    ELSE 32

RECURSIVE StrLess(_, _)
\* a < b for two str: lexicographic by code point
StrLess(a, b) ==
    IF b = <<>> THEN FALSE
    ELSE IF a = <<>> THEN TRUE
    ELSE IF Head(a) # Head(b) THEN CodePoint(Head(a)) < CodePoint(Head(b))
    ELSE StrLess(Tail(a), Tail(b))

RECURSIVE SortedList(_)
\* sorted(S) for a set of str
SortedList(S) ==
    IF S = {} THEN <<>>
    ELSE LET least == CHOOSE x \in S : \A y \in S \ {x} : StrLess(x, y)
         IN  <<least>> \o SortedList(S \ {least})

\* a mutant of TagList: duplicates are dropped, the order of first
\* occurrence is kept
TagListFirstSeen(all_tags) ==
    LET F[k \in 0..Len(all_tags)] ==
            IF k = 0 THEN <<>>
            ELSE IF all_tags[k] \in Range(F[k - 1]) THEN F[k - 1]
            ELSE Append(F[k - 1], all_tags[k])
    IN  F[Len(all_tags)]

\* a mutant of TagList: the two lists are concatenated as they are
TagListConcatenated(all_tags) == all_tags

\* tagging.py:195: sorted([tag for tag in set(all_tags) if tag is not None])
TagList(all_tags) == SortedList(Range(all_tags))

\* a mutant of ExpandedName: a name expanded before is expanded again
ExpandedNameAgain(ev) ==
    IF "name_expanded" \in DOMAIN ev
    THEN expand_name(ev["name_expanded"].val)
    ELSE expand_name(ev["name"].val)

\* tagging.py:186
ExpandedName(ev) == expand_name(ev["name"].val)

\* tagging.py:190: event.get('description', '')
DescriptionOf(ev) ==
    IF "description" \in DOMAIN ev THEN ev["description"] ELSE PyStr(<<>>)

\* tagging.py:134: re.search raises TypeError on a text that is no str, for
\* the first entry that is not skipped
ExtractRaises(text, keyword_store) ==
    /\ text.kind # "str"
    /\ \E k \in DOMAIN keyword_store : ~MatcherSkips(keyword_store[k])

\* a mutant of SetField: the record is rebuilt from the fields of the schema
SetFieldOfSchema(ev, field, value) ==
    [f \in (DOMAIN ev \cap {"id", "name", "description", "name_expanded",
                            "tags"}) \cup {field} |->
        IF f = field THEN value ELSE ev[f]]

\* tagging.py:187, 195: event[field] = value
SetField(ev, field, value) == Put(ev, field, value)

\* the names of the records, and their descriptions: None or a lower case
\* text (the keywords have a capital)
EventNames == {<<"P", "P", "e">>, <<"P", "e">>, <<"e">>}
Descriptions ==
    {PyNone} \cup {PyStr(t) : t \in {u \in Texts : \A k \in DOMAIN u : u[k] # "P"}}

\* the stores of the calls: the stores with at most one keyword for a tag
EventStores ==
    {st \in Stores : \A k \in DOMAIN st : Len(st[k].words.items) <= 1}

\* the fields a record was given by an earlier tagging with another store
Stale ==
    [name_expanded |-> PyStr(<<"e", " ", "e">>), tags |-> PyList(<<PROCESS, PE>>)]

\* the records: id, name and platform; description present or not; the two
\* computed fields absent, or present with stale values
Events ==
    {[f \in {"id", "name", "platform"} \cup d \cup c |->
         CASE f = "id" -> PyStr(<<"e">>)
           [] f = "name" -> PyStr(n)
           [] f = "platform" -> PyStr(<<"p">>)
           [] f = "description" -> desc
           [] f = "name_expanded" -> Stale.name_expanded
           [] f = "tags" -> Stale.tags] :
        <<n, desc, d, c>> \in
            EventNames \X Descriptions \X {{}, {"description"}}
                \X {{}, {"name_expanded", "tags"}}}

TagInit ==
    /\ event \in Events
    /\ ev_store \in EventStores
    /\ tag_from_description = <<>>
    /\ tag_from_name = <<>>
    /\ t_pc = "call"
    /\ original = event
    /\ t_count = 0

\* tagging.py:172-197: one call tag_event(event, ev_store)
TagEvent ==
    /\ t_pc \in {"call", "returned"}
    /\ t_count < MaxTaggings
    /\ t_count' = t_count + 1
    /\ LET expanded_name == ExpandedName(event)
           expanded_event == SetField(event, "name_expanded",
                                      PyStr(expanded_name))
       IN  IF ExtractRaises(DescriptionOf(event), ev_store)
           THEN \* line 190 raises, after line 187 has changed the record
                /\ event' = expanded_event
                /\ t_pc' = "raised"
                /\ UNCHANGED <<tag_from_description, tag_from_name>>
           ELSE /\ tag_from_description' =
                      ExtractTags(DescriptionOf(event).val, ev_store)
                /\ tag_from_name' = ExtractTags(expanded_name, ev_store)
                /\ event' = SetField(expanded_event, "tags",
                       PyList(TagList(tag_from_description' \o tag_from_name')))
                /\ t_pc' = "returned"
    /\ UNCHANGED <<ev_store, original>>
    /\ UNCHANGED tag_rest

TagNext == TagEvent

(***************************************************************************)
(* tag_dictionary (tagging.py:200-227) and the tag command that calls it   *)
(* (cli.py:338-357).  The call obtains its store from get_keywords, so it  *)
(* acts on the cache as well.  A store object of the heap is a dictionary  *)
(* whose order of tags and of keywords the load decides: dicts gives it.   *)
(***************************************************************************)
\* most records of a catalog
MaxEvents == 2
\* runs of the tag command on one catalog
MaxRuns == 2

\* tagging.py:172-197 as a function of the record and the store, for a
\* record whose description is a str or is missing
tag_event(ev, keyword_store) ==
    LET expanded_name == ExpandedName(ev)
        expanded_event == SetField(ev, "name_expanded", PyStr(expanded_name))
    IN  SetField(expanded_event, "tags",
            PyList(TagList(ExtractTags(DescriptionOf(ev).val, keyword_store)
                           \o ExtractTags(expanded_name, keyword_store))))

\* the keyword list of a file, as a value of the store
Words(l) == [kind |-> "list", items |-> l]

\* the dictionary a well-formed tag file parses to
FileKeywords(path, holds) ==
    IF path = DefaultPath /\ holds = "v1"
    THEN <<[tag |-> PE, words |-> Words(<<<<"P", "e">>>>)]>>
    ELSE IF path = DefaultPath
    THEN <<[tag |-> PROCESS, words |-> Words(<<<<"p", " ", "e">>, <<"P", "e">>>>)],
           [tag |-> PE, words |-> Words(<<<<"P", "e">>>>)]>>
    ELSE IF path = "custom1.yaml"
    THEN <<[tag |-> PROCESS, words |-> Words(<<<<"p", " ", "e">>>>)]>>
    ELSE <<>>

\* the tag_files of a batch: None, or one custom file
BatchTagFiles == {<<>>} \cup {<<path>> : path \in CustomPaths}

\* the sequences that hold the elements of s in another order
Reordered(s) ==
    {[k \in DOMAIN s |-> s[f[k]]] :
        f \in {g \in [DOMAIN s -> DOMAIN s] :
                  \A a, b \in DOMAIN s : a # b => g[a] # g[b]}}

\* tagging.py:60-75: the dictionaries a load of one source can give: the
\* order of the tags and the order of the keywords of a tag are not fixed
\* (list(set(...)), line 73, and the order of the mapping)
LoadedDicts(content) ==
    LET parsed == FileKeywords(content[1].path, content[1].holds)
    IN  UNION {{[k \in DOMAIN e |->
                    [tag |-> e[k].tag, words |-> Words(w[k])]] :
                  w \in {v \in [DOMAIN e ->
                                  UNION {Reordered(e[k].words.items) :
                                            k \in DOMAIN e}] :
                            \A k \in DOMAIN e :
                                v[k] \in Reordered(e[k].words.items)}} :
               e \in Reordered(parsed)}

\* the records of a catalog
BatchRecords ==
    {[f \in {"id", "name"} \cup d |->
         CASE f = "id" -> PyStr(<<"e">>)
           [] f = "name" -> PyStr(n)
           [] f = "description" -> desc] :
        <<n, desc, d>> \in
            {<<"P", "e">>, <<"e">>}
                \X {PyNone, PyStr(<<"p", " ", "e">>)}
                \X {{}, {"description"}}}

Catalogs == UNION {[1..n -> BatchRecords] : n \in 0..MaxEvents}

\* a mutant of TaggedAppend: a record without tags is left out
TaggedAppendIfTagged(l, ev) ==
    IF ev["tags"].val = <<>> THEN l ELSE Append(l, ev)

\* tagging.py:221: tagged_events.append(tagged_event)
TaggedAppend(l, ev) == Append(l, ev)

\* a mutant of KeywordsArgument: tag_event is called without the store
KeywordsArgumentNone(obj) == NoObject

\* tagging.py:220: tag_event(event, keywords)
KeywordsArgument(obj) == obj

\* the process has not called get_keywords, or has called it once, without
\* custom sources, and the load succeeded
BatchCacheInit ==
    /\ fs \in FileSystems
    /\ \/ /\ KEYWORDS_CACHE = NoObject
          /\ heap = <<>>
          /\ dicts = <<>>
          /\ ret = NoObject
          /\ call = NoCall
          /\ n_calls = 0
          /\ n_loads = 0
          /\ default_obj = NoObject
       \/ /\ ~LoadRaises(<<>>, fs)
          /\ KEYWORDS_CACHE = 1
          /\ heap = <<LoadTagFiles(<<>>, fs)>>
          /\ dicts \in {<<d>> : d \in LoadedDicts(LoadTagFiles(<<>>, fs))}
          /\ ret = 1
          /\ call = [tag_files |-> <<>>, force_reload |-> FALSE,
                     outcome |-> "loaded"]
          /\ n_calls = 1
          /\ n_loads = 1
          /\ default_obj = 1

BatchInit ==
    /\ BatchCacheInit
    /\ catalog \in Catalogs
    /\ b_tag_files \in BatchTagFiles
    /\ events = catalog
    /\ b_pc = "start"
    /\ b_keywords = NoObject
    /\ bi = 1
    /\ tagged_events = <<>>
    /\ untagged_events = <<>>
    /\ used = <<>>
    /\ b_before = <<n_calls, n_loads>>
    /\ b_run = 1
    /\ first_output = <<>>

\* a load gives the new store object its dictionary
DictOfLoad ==
    IF Len(heap') > Len(heap)
    THEN dicts' \in {Append(dicts, d) : d \in LoadedDicts(heap'[Len(heap')])}
    ELSE UNCHANGED dicts

\* tagging.py:214-217: keywords = get_keywords(tag_files)
BatchStart ==
    /\ b_pc = "start"
    /\ n_calls' = n_calls + 1
    /\ GetKeywordsCall(b_tag_files, FALSE)
    /\ DictOfLoad
    /\ b_keywords' = ret'
    /\ b_pc' = IF call'.outcome = "raised" THEN "raised" ELSE "loop"
    /\ bi' = 1
    /\ tagged_events' = <<>>
    /\ untagged_events' = <<>>
    /\ used' = <<>>
    /\ b_before' = <<n_calls, n_loads>>
    /\ UNCHANGED <<fs, catalog, b_tag_files, events, b_run, first_output>>
    /\ UNCHANGED batch_rest

\* tagging.py:219-225: one iteration of "for event in events"; tag_event
\* calls get_keywords() when it is given no store (lines 182-183)
TagRecord ==
    /\ b_pc = "loop"
    /\ bi <= Len(events)
    /\ IF KeywordsArgument(b_keywords) = NoObject
       THEN /\ n_calls' = n_calls + 1
            /\ GetKeywordsCall(<<>>, FALSE)
            /\ DictOfLoad
       ELSE UNCHANGED <<KEYWORDS_CACHE, heap, ret, call, n_calls, n_loads,
                        default_obj, dicts>>
    /\ LET obj == IF KeywordsArgument(b_keywords) = NoObject THEN ret'
                  ELSE KeywordsArgument(b_keywords)
       IN  IF obj = NoObject
           THEN \* get_keywords raised
                /\ b_pc' = "raised"
                /\ UNCHANGED <<events, bi, tagged_events, untagged_events,
                               used>>
           ELSE IF ExtractRaises(DescriptionOf(events[bi]), dicts'[obj])
           THEN \* tag_event raises, after line 187 has changed the record
                /\ events' = [events EXCEPT ![bi] =
                       SetField(@, "name_expanded", PyStr(ExpandedName(@)))]
                /\ b_pc' = "raised"
                /\ UNCHANGED <<bi, tagged_events, untagged_events, used>>
           ELSE LET tagged_event == tag_event(events[bi], dicts'[obj]) IN
                /\ events' = [events EXCEPT ![bi] = tagged_event]
                /\ tagged_events' = TaggedAppend(tagged_events, tagged_event)
                /\ untagged_events' =
                       IF tagged_event["tags"].val = <<>>
                       THEN Append(untagged_events, tagged_event)
                       ELSE untagged_events
                /\ used' = Append(used, obj)
                /\ bi' = bi + 1
                /\ UNCHANGED b_pc
    /\ UNCHANGED <<fs, catalog, b_tag_files, b_keywords, b_before, b_run,
                   first_output>>
    /\ UNCHANGED batch_rest

\* tagging.py:227
BatchReturn ==
    /\ b_pc = "loop"
    /\ bi > Len(events)
    /\ b_pc' = "returned"
    /\ UNCHANGED <<catalog, b_tag_files, events, b_keywords, bi,
                   tagged_events, untagged_events, dicts, used, b_before,
                   b_run, first_output>>
    /\ UNCHANGED cache_vars
    /\ UNCHANGED batch_rest

\* cli.py:338-357: the tag command is run again, in a new process, on the
\* same input file and with the same tag files
RunAgain ==
    /\ b_pc = "returned"
    /\ b_run < MaxRuns
    /\ b_run' = b_run + 1
    /\ first_output' =
           IF b_run = 1
           THEN <<tagged_events, untagged_events, dicts[b_keywords]>>
           ELSE first_output
    /\ KEYWORDS_CACHE' = NoObject
    /\ heap' = <<>>
    /\ dicts' = <<>>
    /\ ret' = NoObject
    /\ call' = NoCall
    /\ n_calls' = 0
    /\ n_loads' = 0
    /\ default_obj' = NoObject
    /\ events' = catalog
    /\ b_pc' = "start"
    /\ b_keywords' = NoObject
    /\ bi' = 1
    /\ tagged_events' = <<>>
    /\ untagged_events' = <<>>
    /\ used' = <<>>
    /\ b_before' = <<0, 0>>
    /\ UNCHANGED <<fs, catalog, b_tag_files>>
    /\ UNCHANGED batch_rest

BatchNext ==
    \/ BatchStart
    \/ TagRecord
    \/ BatchReturn
    \/ RunAgain

(***************************************************************************)
(* get_keywords called by several threads (tagging.py:87-110, with the     *)
(* load of lines 38-84).  A thread may be suspended between any two        *)
(* statements.  A dictionary object records, for each entry of the         *)
(* default tag file, the version of the file the entry was copied from,    *)
(* 0 while the entry is missing.                                           *)
(***************************************************************************)
\* threads calling get_keywords
MaxThreads == 2
\* entries of a tag file
MaxFileEntries == 2
\* versions of the default tag file
MaxVersions == 2

Threads == 1..MaxThreads
CustomArg == <<"custom1.yaml">>

\* tagging.py:38: keywords = {}
EmptyDict(source) ==
    [source |-> source, entries |-> [k \in 1..MaxFileEntries |-> 0]]

\* a dictionary that holds every entry of one version of its file
WholeDict(source, version) ==
    [source |-> source, entries |-> [k \in 1..MaxFileEntries |-> version]]

\* a mutant of LoadTarget: the load refills the cached dictionary
LoadTargetInPlace(cache, fresh) == IF cache # NoObject THEN cache ELSE fresh

\* tagging.py:38: the load fills a dictionary of its own
LoadTarget(cache, fresh) == fresh

\* the module just imported, or after one call get_keywords() that returned
ConcInit ==
    /\ default_file = 1
    /\ \/ shared_cache = NoObject /\ objects = <<>>
       \/ shared_cache = 1 /\ objects = <<WholeDict("default", default_file)>>
    /\ th_pc = [t \in Threads |-> "idle"]
    /\ th_tag_files = [t \in Threads |-> <<>>]
    /\ th_force_reload = [t \in Threads |-> FALSE]
    /\ th_keywords = [t \in Threads |-> NoObject]
    /\ th_file_keywords = [t \in Threads |-> 0]
    /\ th_k = [t \in Threads |-> 1]
    /\ th_ret = [t \in Threads |-> NoObject]

\* a thread calls get_keywords(tag_files, force_reload)
ThreadCall(t) ==
    /\ th_pc[t] = "idle"
    /\ \E tf \in {<<>>, CustomArg}, force_reload \in BOOLEAN :
         /\ th_tag_files' = [th_tag_files EXCEPT ![t] = tf]
         /\ th_force_reload' = [th_force_reload EXCEPT ![t] = force_reload]
    /\ th_pc' = [th_pc EXCEPT ![t] = "check"]
    /\ UNCHANGED <<shared_cache, objects, default_file, th_keywords,
                   th_file_keywords, th_k, th_ret>>
    /\ UNCHANGED conc_rest

\* line 100: the condition reads _KEYWORDS_CACHE
ThreadCheck(t) ==
    /\ th_pc[t] = "check"
    /\ th_pc' = [th_pc EXCEPT ![t] =
           IF UseCache(shared_cache, th_force_reload[t], th_tag_files[t])
           THEN "return_cache" ELSE "load"]
    /\ UNCHANGED <<shared_cache, objects, default_file, th_tag_files,
                   th_force_reload, th_keywords, th_file_keywords, th_k,
                   th_ret>>
    /\ UNCHANGED conc_rest

\* line 101: return _KEYWORDS_CACHE reads the global again
ThreadReturnCache(t) ==
    /\ th_pc[t] = "return_cache"
    /\ th_ret' = [th_ret EXCEPT ![t] = shared_cache]
    /\ th_pc' = [th_pc EXCEPT ![t] = "returned"]
    /\ UNCHANGED <<shared_cache, objects, default_file, th_tag_files,
                   th_force_reload, th_keywords, th_file_keywords, th_k>>
    /\ UNCHANGED conc_rest

\* lines 104, 38-52: load_tag_files creates its dictionary and parses the
\* file as it is on disk (the custom file is not edited: version 1)
ThreadLoadBegin(t) ==
    /\ th_pc[t] = "load"
    /\ LET source == IF th_tag_files[t] = <<>> THEN "default" ELSE "custom"
           target == LoadTarget(shared_cache, Len(objects) + 1)
       IN  /\ objects' = IF target = Len(objects) + 1
                         THEN Append(objects, EmptyDict(source))
                         ELSE [objects EXCEPT ![target] = EmptyDict(source)]
           /\ th_keywords' = [th_keywords EXCEPT ![t] = target]
           /\ th_file_keywords' = [th_file_keywords EXCEPT ![t] =
                  IF source = "default" THEN default_file ELSE 1]
    /\ th_k' = [th_k EXCEPT ![t] = 1]
    /\ th_pc' = [th_pc EXCEPT ![t] = "merge"]
    /\ UNCHANGED <<shared_cache, default_file, th_tag_files, th_force_reload,
                   th_ret>>
    /\ UNCHANGED conc_rest

\* lines 59-75: one iteration of "for tag, words in file_keywords.items()":
\* keywords[tag] = words
ThreadCopyEntry(t) ==
    /\ th_pc[t] = "merge"
    /\ th_k[t] <= MaxFileEntries
    /\ objects' = [objects EXCEPT ![th_keywords[t]].entries[th_k[t]] =
                       th_file_keywords[t]]
    /\ th_k' = [th_k EXCEPT ![t] = @ + 1]
    /\ UNCHANGED <<shared_cache, default_file, th_pc, th_tag_files,
                   th_force_reload, th_keywords, th_file_keywords, th_ret>>
    /\ UNCHANGED conc_rest

\* line 84: return keywords, back in get_keywords at line 104; the other
\* locals of load_tag_files are gone
ThreadLoadReturn(t) ==
    /\ th_pc[t] = "merge"
    /\ th_k[t] > MaxFileEntries
    /\ th_pc' = [th_pc EXCEPT ![t] = "store"]
    /\ th_file_keywords' = [th_file_keywords EXCEPT ![t] = 0]
    /\ th_k' = [th_k EXCEPT ![t] = 1]
    /\ UNCHANGED <<shared_cache, objects, default_file, th_tag_files,
                   th_force_reload, th_keywords, th_ret>>
    /\ UNCHANGED conc_rest

\* lines 107-108: if not tag_files: _KEYWORDS_CACHE = keywords
ThreadStore(t) ==
    /\ th_pc[t] = "store"
    /\ shared_cache' = IF StoreInCache(th_tag_files[t]) THEN th_keywords[t]
                       ELSE shared_cache
    /\ th_pc' = [th_pc EXCEPT ![t] = "return"]
    /\ UNCHANGED <<objects, default_file, th_tag_files, th_force_reload,
                   th_keywords, th_file_keywords, th_k, th_ret>>
    /\ UNCHANGED conc_rest

\* line 110: return keywords
ThreadReturn(t) ==
    /\ th_pc[t] = "return"
    /\ th_ret' = [th_ret EXCEPT ![t] = th_keywords[t]]
    /\ th_pc' = [th_pc EXCEPT ![t] = "returned"]
    /\ UNCHANGED <<shared_cache, objects, default_file, th_tag_files,
                   th_force_reload, th_keywords, th_file_keywords, th_k>>
    /\ UNCHANGED conc_rest

\* the default tag file is replaced by its next version while the threads
\* run
EditDefault ==
    /\ \E t \in Threads : th_pc[t] # "returned"
    /\ default_file < MaxVersions
    /\ default_file' = default_file + 1
    /\ UNCHANGED <<shared_cache, objects, th_pc, th_tag_files,
                   th_force_reload, th_keywords, th_file_keywords, th_k,
                   th_ret>>
    /\ UNCHANGED conc_rest

ConcNext ==
    \/ \E t \in Threads : ThreadCall(t)
    \/ \E t \in Threads : ThreadCheck(t)
    \/ \E t \in Threads : ThreadReturnCache(t)
    \/ \E t \in Threads : ThreadLoadBegin(t)
    \/ \E t \in Threads : ThreadCopyEntry(t)
    \/ \E t \in Threads : ThreadLoadReturn(t)
    \/ \E t \in Threads : ThreadStore(t)
    \/ \E t \in Threads : ThreadReturn(t)
    \/ EditDefault

(***************************************************************************)
(* Specifications.                                                         *)
(***************************************************************************)
\* load_tag_files is not running
LoadIdle ==
    /\ tag_files = <<>>
    /\ default_source = "mapping"
    /\ file_list = <<>>
    /\ l_pc = "idle"
    /\ idx = 1
    /\ file_keys = {}
    /\ keywords = EmptyStore
    /\ error = "none"
    /\ defs = EmptyStore
    /\ merged = {}
    /\ n_read = 0

\* generate is not running
GenIdle ==
    /\ pc = "idle"
    /\ total = 1
    /\ current_offset = 0
    /\ complete_dictionary = <<>>
    /\ first_batch = TRUE
    /\ resources = <<>>
    /\ ri = 1
    /\ outfile = Untouched
    /\ exit_code = NoExit
    /\ n_pages = 0
    /\ page_failed = FALSE
    /\ returned = [i \in Ids |-> 0]
    /\ detail_ok = [i \in Ids |-> 0]
    /\ detail_zero = [i \in Ids |-> 0]
    /\ exit_event = "none"
    /\ reported_total = 1
    /\ req_offset = 0
    /\ page_details = <<>>

\* get_keywords has not been called
CacheIdle ==
    /\ KEYWORDS_CACHE = NoObject
    /\ heap = <<>>
    /\ fs = [path \in Paths |-> "v1"]
    /\ ret = NoObject
    /\ call = NoCall
    /\ n_calls = 0
    /\ n_loads = 0
    /\ default_obj = NoObject

\* extract_tags is not running
MatchIdle ==
    /\ description = <<>>
    /\ kw_store = <<>>
    /\ matching_tags = <<>>
    /\ m_pc = "idle"

\* expand_name is not running
ExpandIdle ==
    /\ name = <<>>
    /\ modified_name = <<>>
    /\ e_pc = "idle"

\* tag_event is not running
TagIdle ==
    /\ event = <<>>
    /\ ev_store = <<>>
    /\ tag_from_description = <<>>
    /\ tag_from_name = <<>>
    /\ t_pc = "idle"
    /\ original = <<>>
    /\ t_count = 0

\* tag_dictionary is not running
BatchIdle ==
    /\ catalog = <<>>
    /\ b_tag_files = <<>>
    /\ events = <<>>
    /\ b_pc = "idle"
    /\ b_keywords = NoObject
    /\ bi = 1
    /\ tagged_events = <<>>
    /\ untagged_events = <<>>
    /\ dicts = <<>>
    /\ used = <<>>
    /\ b_before = <<0, 0>>
    /\ b_run = 1
    /\ first_output = <<>>

\* no thread calls get_keywords
ConcIdle ==
    /\ shared_cache = NoObject
    /\ objects = <<>>
    /\ default_file = 1
    /\ th_pc = <<>>
    /\ th_tag_files = <<>>
    /\ th_force_reload = <<>>
    /\ th_keywords = <<>>
    /\ th_file_keywords = <<>>
    /\ th_k = <<>>
    /\ th_ret = <<>>

InitGen == GenInit /\ LoadIdle /\ CacheIdle /\ MatchIdle /\ ExpandIdle /\ TagIdle
    /\ BatchIdle /\ ConcIdle

InitLoad == GenIdle /\ LoadInit /\ CacheIdle /\ MatchIdle /\ ExpandIdle /\ TagIdle
    /\ BatchIdle /\ ConcIdle

InitCache == GenIdle /\ LoadIdle /\ CacheInit /\ MatchIdle /\ ExpandIdle /\ TagIdle
    /\ BatchIdle /\ ConcIdle

InitMatch == GenIdle /\ LoadIdle /\ CacheIdle /\ MatchInit /\ ExpandIdle /\ TagIdle
    /\ BatchIdle /\ ConcIdle

InitExpand == GenIdle /\ LoadIdle /\ CacheIdle /\ MatchIdle /\ ExpandInit /\ TagIdle
    /\ BatchIdle /\ ConcIdle

InitTag == GenIdle /\ LoadIdle /\ CacheIdle /\ MatchIdle /\ ExpandIdle /\ TagInit
    /\ BatchIdle /\ ConcIdle

InitBatch ==
    GenIdle /\ LoadIdle /\ MatchIdle /\ ExpandIdle /\ TagIdle /\ BatchInit
    /\ ConcIdle

InitConc ==
    GenIdle /\ LoadIdle /\ CacheIdle /\ MatchIdle /\ ExpandIdle /\ TagIdle
    /\ BatchIdle /\ ConcInit

\* one run of the generate command
SpecGen == InitGen /\ [][GenNext]_vars

\* the same, the command never stopping while it has a step to take
SpecGenLive == SpecGen /\ WF_vars(GenNext)

\* one call of load_tag_files
SpecLoad == InitLoad /\ [][LoadNext]_vars

\* a process that calls get_keywords, one call after the other
SpecCache == InitCache /\ [][CacheNext]_vars

\* one call of extract_tags
SpecMatch == InitMatch /\ [][MatchNext]_vars

\* one call of expand_name
SpecExpand == InitExpand /\ [][ExpandNext]_vars

\* tag_event called on one record, once or again
SpecTag == InitTag /\ [][TagNext]_vars

\* the tag command run on one catalog, once or again
SpecBatch == InitBatch /\ [][BatchNext]_vars

\* threads calling get_keywords at the same time
SpecConc == InitConc /\ [][ConcNext]_vars

(***************************************************************************)
(* Claims about generate, checked under SpecGen.                           *)
(***************************************************************************)
\* identifiers of the current page whose detail call is still to come
Pending(i) ==
    IF pc = "details"
    THEN Cardinality({k \in ri..Len(resources) : resources[k] = i})
    ELSE 0

\* the for loops are over and every summary page succeeded
AssemblyComplete ==
    /\ ~page_failed
    /\ \/ pc \in {"loop", "sort", "open", "dump"}
       \/ pc = "exit" /\ exit_event \in {"returned", "write_failed"}

C1_Records ==
    /\ \A i \in Ids : CountId(complete_dictionary, i) = detail_ok[i]
    /\ pc = "details" =>
          \A i \in Ids : detail_ok[i] + detail_zero[i] + Pending(i) = returned[i]
    /\ AssemblyComplete =>
          \A i \in Ids : detail_ok[i] + detail_zero[i] = returned[i]

C1_NeverAborts ==
    (\E i \in Ids : detail_zero'[i] # detail_zero[i])
        => /\ pc' = "details"
           /\ exit_code' = NoExit
           /\ ri' = ri + 1
           /\ complete_dictionary' = complete_dictionary

\* C1: the collection holds one record per detail call that reported a
\* resource (for every identifier, as many records as successful detail calls
\* of it) and none for a detail call that reported zero resources or failed;
\* every identifier a successful summary page returned gets its detail call,
\* and a zero-resource or failed detail call leaves the collection as it was
\* and the run in the loop, at the next identifier.
C1_DetailSkipOrAppend == []C1_Records /\ [][C1_NeverAborts]_vars

\* C1 witness: total=3 over two pages of sizes 2 and 1, one detail call with
\* zero resources, the run finished with exactly 2 records.
C1_Witness ==
    /\ pc = "exit" /\ exit_code = 0
    /\ total = 3 /\ n_pages = 2 /\ current_offset = 3
    /\ detail_zero[1] + detail_zero[2] = 1
    /\ Len(complete_dictionary) = 2

\* generate returned: the collection was sorted and written
Written == pc = "exit" /\ exit_event = "returned"

\* C2: the collection written by generate is sorted ascending by id and holds
\* no two records with the same id, also when summary pages repeat an
\* identifier. (The code sorts and never removes a repeated record.)
C2_SortedNoDuplicates ==
    Written => IsSortedById(complete_dictionary) /\ NoDuplicateIds(complete_dictionary)

\* the half of C2 the code keeps: what is written is sorted ascending by id
C2_SortedOnly == Written => IsSortedById(complete_dictionary)

\* C3: after a summary page request returned a non-success status (first page
\* or later) the run is in the failure state: nothing is written to the output
\* file and the command does not end successfully.
C3_PageFailureAborts ==
    page_failed => /\ ~outfile.touched
                   /\ exit_code # 0

\* C4: exit code 0 only when every summary page succeeded and the output file
\* holds the whole collection; 1 on authentication failure, on a summary page
\* failure at any offset and on an output write failure; 130 on interrupt.
C4_ExitCodes ==
    /\ exit_code = 0 =>
          /\ ~page_failed
          /\ outfile.touched /\ outfile.data = Serialize(complete_dictionary)
    /\ exit_event = "auth_failed" => exit_code = 1
    /\ exit_event = "write_failed" => exit_code = 1
    /\ exit_event = "interrupt" => exit_code = 130
    /\ (page_failed /\ pc = "exit" /\ exit_event # "interrupt") => exit_code = 1

\* C5: whenever the command has been cancelled or has failed, the output file
\* is untouched or holds the complete serialized final collection: no
\* interrupt or error leaves a truncated or partially written file.
C5_OutputAtomic ==
    (pc = "exit" /\ exit_code # 0) =>
        \/ outfile = Untouched
        \/ outfile.data = Serialize(complete_dictionary)



(***************************************************************************)
(* Claims about load_tag_files, checked under SpecLoad.                    *)
(***************************************************************************)
NoRepeat(l) == \A j, k \in 1..Len(l) : j # k => l[j] # l[k]

C7_NonEmptyNoRepeat ==
    l_pc = "done" =>
        \A T \in DOMAIN keywords : keywords[T] # <<>> /\ NoRepeat(keywords[T])

\* C8: an entry whose tag name is empty or missing, or whose keyword list is
\* missing or not a list of strings, never appears in the returned store, and
\* the keywords of the well-formed entries are all in it.
C8_InvalidEntriesSkipped ==
    l_pc = "done" =>
        /\ \A T \in DOMAIN keywords :
              /\ T \in TagNames
              /\ \A k \in 1..Len(keywords[T]) : keywords[T][k] \in Keywords
        /\ \A T \in TagNames \cap DOMAIN defs :
              (defs[T] \cap Keywords) \subseteq Range(keywords[T])

\* C9: a source that cannot be parsed makes the load fail, at any position:
\* the loop never moves past it, the load never returns a store, and the
\* error raised when the loop reaches it is the parse error.
C9_MalformedSourceFails ==
    /\ (\E k \in 1..Len(file_list) : file_list[k] = "yaml_error") => l_pc # "done"
    /\ \A k \in 1..Len(file_list) : file_list[k] = "yaml_error" => idx <= k
    /\ (l_pc \in {"raised", "entries"} /\ file_list[idx] = "yaml_error") =>
          l_pc = "raised" /\ error = "YAMLError"

\* C9 witness: the second source is malformed, the first one was loaded, and
\* the load ended with the parse error.
C9_Witness ==
    /\ l_pc = "raised"
    /\ error = "YAMLError"
    /\ idx = 2
    /\ "t1" \in DOMAIN keywords

\* sources of the list before position k that exist
Existing(k) == {j \in 1..(k - 1) : j <= Len(file_list) /\ file_list[j] # "missing"}

C11_DefaultOnly ==
    (tag_files = <<>> /\ l_pc \notin {"idle", "start"}) =>
        /\ file_list = <<default_source>>
        /\ n_read <= 1
        /\ merged = {}
        /\ l_pc = "done" =>
              /\ n_read = (IF default_source = "missing" THEN 0 ELSE 1)
              /\ DOMAIN keywords = DOMAIN defs
              /\ \A t \in DOMAIN keywords : Range(keywords[t]) = defs[t]

C11_Witness ==
    /\ tag_files = <<>>
    /\ l_pc = "done"
    /\ keywords # EmptyStore

(***************************************************************************)
(* Claims about get_keywords, checked under SpecCache.                     *)
(***************************************************************************)
\* the step is a call of get_keywords
IsCall == n_calls' = n_calls + 1

\* the store a load of the sources tf gives from the files as they are
FreshLoad(tf) == [k \in 1..Len(tf) |-> [path |-> tf[k], holds |-> fs[tf[k]]]]

\* C12: once a call without custom sources has succeeded, every later call
\* without custom sources and without force_reload returns the very object
\* the last such successful call returned (the first load or the last forced
\* reload) and performs no load.
C12_CachedObjectReused ==
    [][(/\ IsCall
        /\ call'.tag_files = <<>>
        /\ ~call'.force_reload
        /\ default_obj # NoObject)
       => (/\ call'.outcome = "cached"
           /\ ret' = default_obj
           /\ n_loads' = n_loads
           /\ heap' = heap)]_vars

C12_Witness ==
    /\ n_calls = 3
    /\ n_loads = 1
    /\ call = [tag_files |-> <<>>, force_reload |-> FALSE, outcome |-> "cached"]
    /\ ret = 1
    /\ fs[DefaultPath] # heap[1][1].holds

\* C13: a call with a non-empty list of custom sources always calls
\* load_tag_files; when the load succeeds it returns a new object, never
\* the cached one, holding a fresh load of exactly those sources; the cache
\* and the objects that existed before the call are left as they were.
C13_CustomNeverCached ==
    [][(IsCall /\ call'.tag_files # <<>>)
       => (/\ n_loads' = n_loads + 1
           /\ call'.outcome # "cached"
           /\ KEYWORDS_CACHE' = KEYWORDS_CACHE
           /\ \A o \in DOMAIN heap : heap'[o] = heap[o]
           /\ call'.outcome = "loaded" =>
                 /\ ret' \in DOMAIN heap' \ DOMAIN heap
                 /\ ret' # KEYWORDS_CACHE'
                 /\ heap'[ret'] = FreshLoad(call'.tag_files))]_vars

C13_Witness ==
    /\ call.tag_files # <<>>
    /\ call.outcome = "loaded"
    /\ KEYWORDS_CACHE # NoObject
    /\ ret # KEYWORDS_CACHE
    /\ heap[ret] # heap[KEYWORDS_CACHE]

\* C14: a call with force_reload and no custom sources always calls
\* load_tag_files, even when the cache is populated; when the load succeeds
\* it returns a new object that holds a fresh load of the default source,
\* that object becomes the cache, and an unforced call without custom
\* sources that follows returns it.
C14_ForceReloads ==
    /\ [][(IsCall /\ call'.tag_files = <<>> /\ call'.force_reload)
           => (/\ n_loads' = n_loads + 1
               /\ call'.outcome # "cached"
               /\ call'.outcome = "loaded" =>
                     /\ ret' \in DOMAIN heap' \ DOMAIN heap
                     /\ heap'[ret'] = FreshLoad(<<DefaultPath>>)
                     /\ KEYWORDS_CACHE' = ret')]_vars
    /\ [][(/\ IsCall
            /\ call = [tag_files |-> <<>>, force_reload |-> TRUE,
                       outcome |-> "loaded"]
            /\ call'.tag_files = <<>>
            /\ ~call'.force_reload)
           => ret' = ret]_vars

C14_Witness ==
    /\ n_calls = 2
    /\ call = [tag_files |-> <<>>, force_reload |-> TRUE, outcome |-> "loaded"]
    /\ ret = 2
    /\ KEYWORDS_CACHE = 2
    /\ heap[2] # heap[1]
    /\ heap[1][1].path = DefaultPath

(***************************************************************************)
(* Claims about extract_tags, checked under SpecMatch.                     *)
(***************************************************************************)
\* the word occurs in the text, ignoring case, with no word character right
\* before it and none right after it
OccursAsWholeWord(word, text) ==
    \E i \in 0..(Len(text) - Len(word)) :
        /\ \A k \in 1..Len(word) : Fold(text[i + k]) = Fold(word[k])
        /\ i = 0 \/ ~IsWordChar(text[i])
        /\ i + Len(word) = Len(text) \/ ~IsWordChar(text[i + Len(word) + 1])

\* C15: extract_tags returns a tag if and only if at least one keyword of
\* the tag occurs in the text as a whole word or phrase, ignoring case.
C15_TagIffWholeWord ==
    m_pc = "returned" =>
        \A k \in DOMAIN kw_store :
            (kw_store[k].tag \in Range(matching_tags)) <=>
                \E word \in Range(kw_store[k].words.items) :
                    OccursAsWholeWord(word, description)

\* the same, for the stores whose keyword lists are all non-empty
C15_NonEmptyLists ==
    (\A k \in DOMAIN kw_store : kw_store[k].words.items # <<>>) => C15_TagIffWholeWord

(***************************************************************************)
(* Claims about expand_name, checked under SpecExpand.                     *)
(***************************************************************************)
LettersOnly(s) == \A k \in DOMAIN s : IsUpper(s[k]) \/ IsLower(s[k])

\* a capital that is not the first character and that a lower case letter
\* follows
WordStart(s, k) ==
    /\ k > 1
    /\ k < Len(s)
    /\ IsUpper(s[k])
    /\ IsLower(s[k + 1])

RECURSIVE WithSpaces(_, _)
\* the characters of s from k on, a space put before each WordStart
WithSpaces(s, k) ==
    IF k > Len(s) THEN <<>>
    ELSE (IF WordStart(s, k) THEN <<" ", s[k]>> ELSE <<s[k]>>)
             \o WithSpaces(s, k + 1)

\* the string without its spaces
Letters(s) == SelectSeq(s, LAMBDA c : c # " ")

\* C17: for a name made of letters only, expand_name returns the name with
\* one space before each non-initial capital that a lower case letter
\* follows, and nothing else changed: the letters are the same in the same
\* order, no space leads or trails, and a name without such a capital is
\* returned as it is.
C17_SpaceBeforeWordStarts ==
    (e_pc = "returned" /\ LettersOnly(name)) =>
        /\ modified_name = WithSpaces(name, 1)
        /\ Letters(modified_name) = name
        /\ modified_name # <<>> =>
              modified_name[1] # " " /\ modified_name[Len(modified_name)] # " "
        /\ (\A k \in DOMAIN name : ~WordStart(name, k)) => modified_name = name

\* "ePPPe" gives "ePP Pe": the run of capitals is split only before its last
C17_Witness ==
    /\ e_pc = "returned"
    /\ name = <<"e", "P", "P", "P", "e">>
    /\ modified_name = <<"e", "P", "P", " ", "P", "e">>

(***************************************************************************)
(* Claims about tag_event, checked under SpecTag.                          *)
(***************************************************************************)
\* tag_event has been called on the record
Called == t_pc \in {"returned", "raised"}

\* the description of the record before the call: absent, None or empty
NoText ==
    \/ "description" \notin DOMAIN original
    \/ original["description"].kind = "none"
    \/ original["description"] = PyStr(<<>>)

\* C16: tagging a record whose description is missing, None or the empty
\* text raises no error and matches no tag in the description, for every
\* keyword store.
C16_NoTextNoTags ==
    (Called /\ NoText) => (t_pc = "returned" /\ tag_from_description = <<>>)

\* the same, for the records whose description is missing or the empty text
C16_MissingOrEmpty ==
    (Called /\ NoText /\ DescriptionOf(original).kind = "str") =>
        (t_pc = "returned" /\ tag_from_description = <<>>)

StrictlySorted(l) == \A j, k \in DOMAIN l : j < k => StrLess(l[j], l[k])

\* C18: after tag_event, name_expanded is expand_name(name), and tags is
\* present and lists, in ascending order and once each, exactly the tags
\* matched in the description or in the expanded name.
C18_TagsSortedUnion ==
    t_pc = "returned" =>
        /\ "name_expanded" \in DOMAIN event
        /\ event["name_expanded"] = PyStr(expand_name(original["name"].val))
        /\ "tags" \in DOMAIN event
        /\ event["tags"].kind = "list"
        /\ StrictlySorted(event["tags"].val)
        /\ Range(event["tags"].val) =
               Range(ExtractTags(DescriptionOf(original).val, ev_store))
               \cup Range(ExtractTags(expand_name(original["name"].val),
                                      ev_store))

\* both tags found, one of them in the description and in the name, the
\* store listing them in descending order
C18_Witness ==
    /\ t_pc = "returned"
    /\ event["tags"].val = <<PE, PROCESS>>
    /\ tag_from_description = <<PROCESS, PE>>
    /\ tag_from_name # <<>>
    /\ original["name"].val = <<"P", "P", "e">>

\* C19: tag_event changes no field other than name_expanded and tags: every
\* other field the record had is present with the same value after the call.
C19_OtherFieldsKept ==
    Called =>
        /\ DOMAIN event \ {"name_expanded", "tags"}
               = DOMAIN original \ {"name_expanded", "tags"}
        /\ \A f \in DOMAIN original \ {"name_expanded", "tags"} :
               event[f] = original[f]

C19_Witness ==
    /\ t_pc = "returned"
    /\ "description" \in DOMAIN event
    /\ event["platform"] = PyStr(<<"p">>)
    /\ "tags" \notin DOMAIN original
    /\ event["tags"].val # <<>>

\* the record without the two computed fields
Untagged(ev) == [f \in DOMAIN ev \ {"name_expanded", "tags"} |-> ev[f]]

\* C20: a call of tag_event on a record that was tagged with the same store
\* leaves tags and name_expanded as the first call set them, and the first
\* call sets them to what the record without the values it carried is given.
C20_Idempotent ==
    /\ [](t_pc = "returned" =>
             /\ event["name_expanded"] = PyStr(ExpandedName(Untagged(original)))
             /\ event["tags"] =
                    PyList(TagList(
                        ExtractTags(DescriptionOf(Untagged(original)).val,
                                    ev_store)
                        \o ExtractTags(ExpandedName(Untagged(original)),
                                       ev_store))))
    /\ [][(t_pc = "returned" /\ t_pc' = "returned") =>
             /\ event'["tags"] = event["tags"]
             /\ event'["name_expanded"] = event["name_expanded"]]_vars

\* a second call on a record that carried stale values before the first
C20_Witness ==
    /\ t_pc = "returned"
    /\ t_count = 2
    /\ "tags" \in DOMAIN original
    /\ event["tags"].val # original["tags"].val
    /\ event["name_expanded"].val = <<"P", " ", "P", "e">>

(***************************************************************************)
(* Claims about tag_dictionary, checked under SpecBatch.                   *)
(***************************************************************************)
\* C21: tag_dictionary returns a tagged list with one record per input
\* record, in input order, each with its tags, and an untagged list that
\* holds exactly the records of the tagged list whose tags are empty, in
\* the same order.
C21_TaggedAndUntagged ==
    b_pc = "returned" =>
        /\ Len(tagged_events) = Len(catalog)
        /\ \A k \in DOMAIN catalog :
               /\ Untagged(tagged_events[k]) = catalog[k]
               /\ "tags" \in DOMAIN tagged_events[k]
        /\ untagged_events =
               SelectSeq(tagged_events, LAMBDA ev : ev["tags"].val = <<>>)

\* an untagged record before a tagged one
C21_Witness ==
    /\ b_pc = "returned"
    /\ Len(tagged_events) = 2
    /\ untagged_events = <<tagged_events[1]>>
    /\ tagged_events[2]["tags"].val # <<>>

\* C22: during one tag_dictionary call get_keywords is called exactly once,
\* before the first record is tagged; every record is tagged with the store
\* object that call returned, and no source is loaded and no store object
\* created while the records are tagged.
C22_StoreObtainedOnce ==
    /\ []((b_pc \in {"loop", "returned"} \/ (b_pc = "raised" /\ used # <<>>)) =>
             /\ n_calls = b_before[1] + 1
             /\ n_loads <= b_before[2] + 1
             /\ \A k \in DOMAIN used : used[k] = b_keywords)
    /\ [][b_pc = "loop" =>
             /\ n_calls' = n_calls
             /\ n_loads' = n_loads
             /\ heap' = heap
             /\ dicts' = dicts
             /\ KEYWORDS_CACHE' = KEYWORDS_CACHE]_vars

\* two records tagged with the store of a custom file, loaded once
C22_Witness ==
    /\ b_pc = "returned"
    /\ b_tag_files # <<>>
    /\ Len(used) = 2
    /\ n_loads = b_before[2] + 1
    /\ KEYWORDS_CACHE # b_keywords

\* C23: a second run of the tag command on the same catalog with the same
\* tag files returns the lists the first run returned, whatever order the
\* load gave the tags of the store and the keywords of a tag in each run.
C23_Deterministic ==
    (b_run >= 2 /\ b_pc = "returned") =>
        /\ tagged_events = first_output[1]
        /\ untagged_events = first_output[2]

\* a record with two tags, the stores of the two runs in different orders
C23_Witness ==
    /\ b_run = 2
    /\ b_pc = "returned"
    /\ dicts[b_keywords] # first_output[3]
    /\ \E k \in DOMAIN tagged_events :
           tagged_events[k]["tags"].val = <<PE, PROCESS>>

(***************************************************************************)
(* The assembly loop of generate: requests, offsets, total.                *)
(***************************************************************************)

\* C24: the total the loop compares the offset with is the total of the
\* latest successful summary response, so that a later page reporting
\* another total makes the loop continue or stop by that value.
C24_LatestTotalUsed ==
    (n_pages >= 1 /\ pc \in {"details", "loop"}) => total = reported_total

\* a step that issues a summary request, answered by a page or a failure
SummaryRequest ==
    /\ pc \in {"first_page", "loop"}
    /\ pc' = "details" \/ page_failed' # page_failed

\* the number of identifiers the summary pages returned so far
ReturnedSoFar ==
    LET f[k \in 0..MaxId] == IF k = 0 THEN 0 ELSE f[k - 1] + returned[k]
    IN  f[MaxId]

C25_RequestOffset ==
    SummaryRequest =>
        /\ pc = "first_page" => req_offset' = 0
        /\ req_offset' = ReturnedSoFar
        /\ req_offset' >= req_offset

C25_RequestIffBelowTotal ==
    (pc = "loop" /\ pc' # "loop" /\ exit_event' # "interrupt") =>
        (SummaryRequest <=> current_offset < total)

\* C25: the first summary request has offset 0, every later one the number
\* of identifiers all earlier pages returned, never less than the one
\* before; after a page another request follows iff current_offset < total
\* (read for runs that are not interrupted at that point).
C25_Offsets == [][C25_RequestOffset /\ C25_RequestIffBelowTotal]_vars

\* a third request, after two pages of one identifier each
C25_Witness ==
    /\ n_pages = 3
    /\ pc = "details"
    /\ req_offset = 2
    /\ ReturnedSoFar = 2 + Len(resources)

C26_DetailsOfPage ==
    /\ pc = "details" => /\ ri <= Len(resources) + 1
                         /\ page_details = SubSeq(resources, 1, ri - 1)
    /\ pc = "loop" => page_details = resources
    /\ pc \in {"authenticate", "first_page"} => page_details = <<>>
    /\ \A i \in Ids : detail_ok[i] + detail_zero[i] <= returned[i]

C26_DetailsBeforeRequest ==
    /\ (SummaryRequest /\ pc = "loop") => page_details = resources
    /\ page_details' # page_details =>
          \/ pc = "details" /\ pc' = "details"
          \/ SummaryRequest /\ page_details' = <<>>

\* C26: the detail requests issued since a summary response are the
\* identifiers of that page, one each and in the page's order; all of them
\* are issued before the next summary request; detail requests are issued
\* only between a summary response and the next summary request, and only
\* for identifiers a page returned.
C26_Sequential == []C26_DetailsOfPage /\ [][C26_DetailsBeforeRequest]_vars

\* the details of a second page of two identifiers are all requested
C26_Witness ==
    /\ n_pages = 2
    /\ pc = "loop"
    /\ Len(resources) = 2
    /\ page_details = resources

\* C28: with every remote call returning, a run of generate that keeps
\* taking steps reaches the sort-and-write step or exits, whatever the
\* summary responses are, a page without identifiers below the total
\* included.
C28_Terminates == <>(pc \in {"sort", "open", "dump", "exit"})

(***************************************************************************)
(* expand_name on names that hold spaces, checked under SpecExpand.        *)
(***************************************************************************)
\* the number of spaces in front of character p of s, up to the character
\* before them
SpacesBefore(s, p) ==
    Cardinality({n \in 1..(p - 1) : \A q \in (p - n)..(p - 1) : s[q] = " "})

\* the number of characters other than the space among the first k of s
LettersUpTo(s, k) == Cardinality({q \in 1..k : s[q] # " "})

\* the position in s of its j-th character other than the space
LetterPos(s, j) ==
    CHOOSE p \in DOMAIN s : s[p] # " " /\ LettersUpTo(s, p) = j

\* C27: where the name has a space before a capital that a lower case
\* letter follows (and a word before that space), expand_name inserts no
\* further space: the capital has as many spaces in front of it in the
\* result as it has in the name.
C27_NoSecondSpace ==
    e_pc = "returned" =>
        \A k \in DOMAIN name :
            (/\ WordStart(name, k)
             /\ name[k - 1] = " "
             /\ LettersUpTo(name, k - 1) > 0) =>
                SpacesBefore(modified_name,
                             LetterPos(modified_name, LettersUpTo(name, k)))
                    = SpacesBefore(name, k)

(***************************************************************************)
(* The cache after a sequence of get_keywords calls, under SpecCache.      *)
(***************************************************************************)
\* the stores that loads of the default source returned
DefaultLoads == {k \in DOMAIN heap : heap[k][1].path = DefaultPath}

\* the store the most recent successful load of the default source returned
LastDefaultLoad ==
    IF DefaultLoads = {} THEN NoObject
    ELSE CHOOSE k \in DefaultLoads : \A j \in DefaultLoads : j <= k

C29_CacheHoldsLastLoad ==
    KEYWORDS_CACHE = NoObject \/ KEYWORDS_CACHE = LastDefaultLoad

C29_CacheKept ==
    (n_calls' # n_calls
        /\ (call'.tag_files # <<>> \/ call'.outcome = "raised")) =>
        KEYWORDS_CACHE' = KEYWORDS_CACHE

\* C29: after any sequence of get_keywords calls the cache is unset or holds
\* the store the most recent successful load of the default source
\* returned; a call with custom tag files and a call whose load raises
\* leave the cache as it was.
C29_Cache == []C29_CacheHoldsLastLoad /\ [][C29_CacheKept]_vars

\* a default load, a load of custom files, then a forced reload that raises:
\* the cache still holds the store of the first call
C29_Witness ==
    /\ call.outcome = "raised"
    /\ call.tag_files = <<>>
    /\ call.force_reload
    /\ KEYWORDS_CACHE # NoObject
    /\ KEYWORDS_CACHE = LastDefaultLoad
    /\ Len(heap) > KEYWORDS_CACHE

(***************************************************************************)
(* Concurrent callers of get_keywords, under SpecConc.                     *)
(***************************************************************************)
\* a complete store that one load of the default file built: every entry
\* is there and all entries come from one version of the file
WholeDefaultLoad(obj) ==
    /\ obj # NoObject
    /\ objects[obj].source = "default"
    /\ \E v \in 1..MaxVersions : objects[obj] = WholeDict("default", v)

\* C30: with several threads in get_keywords at the same time, forced
\* reloads among them, every call without custom tag files that returned
\* holds a complete store built by one whole load of the default file, and
\* keeps holding it while the other threads run; so does the cache once set.
C30_NoPartialStore ==
    /\ \A t \in Threads :
           (th_pc[t] = "returned" /\ th_tag_files[t] = <<>>) =>
               WholeDefaultLoad(th_ret[t])
    /\ shared_cache # NoObject => WholeDefaultLoad(shared_cache)

\* a call returned the cached store while a forced reload of another thread
\* has copied some of the entries into its dictionary
C30_Witness ==
    \E t, u \in Threads :
        /\ th_pc[t] = "returned"
        /\ th_tag_files[t] = <<>>
        /\ ~th_force_reload[t]
        /\ th_ret[t] = shared_cache
        /\ th_pc[u] = "merge"
        /\ th_force_reload[u]
        /\ th_tag_files[u] = <<>>
        /\ th_k[u] = 2
        /\ th_file_keywords[u] # objects[th_ret[t]].entries[1]

============================================================================
